---- MODULE Spec2Model ----
(***************************************************************************)
(* Match lifecycle of the 5v5 scrims bot: the in-memory registry of the    *)
(* MatchManagement cog (active_matches, voting_data), the persisted rows   *)
(* written through DatabaseManager (matches, players.points,               *)
(* match_history) and the handlers that change them.  Each handler is one  *)
(* action, taken with the arguments the chat platform can deliver.         *)
(***************************************************************************)
EXTENDS Integers, Sequences, FiniteSets, TLC

VARIABLES
    active_matches,   \* MatchManagement.active_matches: match_id -> MatchModel
    voting_data,      \* MatchManagement.voting_data: match_id -> vote ledger
    db_matches,       \* table matches: match_id -> row
    db_points,        \* table players: user_id -> points
    db_history,       \* table match_history: sequence of inserted rows
    queue,            \* QueueSystem.active_queues[guild]: the guild's QueueModel
    joining,          \* users whose handle_join_queue awaits after add_player
    starting,         \* start_match calls awaiting their match channel
    promoted,         \* match_id -> the players handed to create_match_channel
    db_config,        \* table config: the row of the guild
    lastEvent         \* the handler call that produced this state (observer)

vars == <<active_matches, voting_data, db_matches, db_points, db_history,
          queue, joining, starting, promoted, db_config, lastEvent>>
prog == <<active_matches, voting_data, db_matches, db_points, db_history>>
qvars == <<queue, joining, starting, promoted>>

---------------------------------------------------------------------------
\* Bounds of the model

\* Draft picks accepted per match before the model stops offering picks
\* (handle_draft_pick itself never refuses a pick for a full roster).
MaxPicks == 9
MaxCompletions == 2
MaxDraftPicks == 4
MaxLedgerPicks == 8
\* Join handlers and start_match calls suspended at an await at one time.
MaxInFlight == 1
\* Draft picks offered to a match promoted from the queue.
MaxForcePicks == 8
\* Join handlers and start_match calls suspended at one time around a fill.
MaxRacing == 2

---------------------------------------------------------------------------
\* Program constants

QUEUE_SIZE == 10
POINTS_WIN == 30
POINTS_LOSS == -30
POINTS_MVP == 10
STARTING_POINTS == 1000
NO_PROOF_PENALTY == 100
PROOF_TIMEOUT_MINUTES == 30
MAX_SCREENSHOT_SIZE_MB == 10
\* The extensions of ALLOWED_IMAGE_EXTENSIONS, without the leading dot that
\* is_valid_screenshot puts in front of the file's extension before it looks it up.
ALLOWED_IMAGE_EXTENSIONS == {"png", "jpg", "jpeg", "gif", "webp"}

\* Python's None in an integer field (winner_team, mvp_id, a user id).
None == 0
\* Python's None in a string field (screenshot_url, cancelled_reason).
NoneStr == "None"
\* Python's None in lobby_id (lobby ids are sequences of characters).
NoLobby == <<>>

DRAFTING == "drafting"
WAITING_FOR_LOBBY == "waiting_for_lobby"
IN_PROGRESS == "in_progress"
VOTING == "voting"
COMPLETED == "completed"
CANCELLED == "cancelled"
MatchStatus == {DRAFTING, WAITING_FOR_LOBBY, IN_PROGRESS, VOTING, COMPLETED, CANCELLED}

---------------------------------------------------------------------------
\* Input domains

\* Match ids MatchHelper.generate_match_id can return ("#" and three digits).
MatchIds == {"#001"}
\* The players promoted from a full queue.
Players == 1 .. QUEUE_SIZE
\* A user who never queued.
Outsider == QUEUE_SIZE + 1
\* The pairs random.sample may return as (leader1, leader2).
LeaderPairs == {<<1, 2>>, <<2, 1>>}
\* The users who press buttons, submit forms and post messages.
Actors == {1, 2, 3, Outsider}

\* The channel created for a match (one text channel per match).
ChannelOf(match_id) == match_id

---------------------------------------------------------------------------
\* Inputs the handlers receive

BytesPerMB == 1024 * 1024

\* Attachments a message can carry: size in bytes, the file name as its
\* dot-separated parts, and the url the platform gave the upload.
Attachments ==
    << [size |-> 2 * BytesPerMB,  filename |-> <<"score", "png">>, url |-> "cdn/score.png"],
       [size |-> 15 * BytesPerMB, filename |-> <<"huge", "png">>,  url |-> "cdn/huge.png"],
       [size |-> 2 * BytesPerMB,  filename |-> <<"notes", "txt">>, url |-> "cdn/notes.txt"],
       [size |-> 10 * BytesPerMB, filename |-> <<"FINAL", "PNG">>, url |-> "cdn/FINAL.PNG"] >>

\* What a leader types into the lobby modal.
LobbyInputs ==
    << <<"a", "b", "1", "2">>,
       <<"a", "1">>,
       <<" ", "a", "b", "1", "2", " ">>,
       <<"a", "b", "-", "2">>,
       <<"a", "b", "1", "2", "a", "b", "1", "2", "a", "b", "1">> >>

\* What an administrator passes to the config command: the setting, the value.
ConfigSettings ==
    {"points_win", "POINTS_WIN", "points_loss", "points_mvp", "timeout_minutes",
     "proof_timeout_minutes", "queue_size", "no_proof_penalty", "rank_roles_enabled",
     "starting_points"}

ConfigValues == << "-5", "0", "5", "20000", "abc" >>

\* What an administrator passes as the team of forcewinner.
TeamStrs == << "1", "2", "3", "abc" >>

\* What an administrator passes as the player of forcemvp: the text before the
\* digits, the digits as a number, the text after them.
Mentions ==
    << [open |-> "<@", id |-> 1, close |-> ">"],
       [open |-> "<@!", id |-> 3, close |-> ">"],
       [open |-> "<@", id |-> Outsider, close |-> ">"],
       [open |-> "@", id |-> 2, close |-> ""] >>

---------------------------------------------------------------------------
\* Pure helpers

\* str.upper() on one character.
Upper(c) ==
    CASE c = "a" -> "A"
      [] c = "b" -> "B"
      [] OTHER -> c

\* str.lower() on one part of a file name.
Lower(w) ==
    CASE w = "PNG" -> "png"
      [] w = "FINAL" -> "final"
      [] w = "POINTS_WIN" -> "points_win"
      [] OTHER -> w

UpperStr(s) == [i \in 1 .. Len(s) |-> Upper(s[i])]

\* str.strip(): the blanks at both ends go.
RECURSIVE strip(_)
strip(s) ==
    IF s = << >> THEN s
    ELSE IF Head(s) = " " THEN strip(Tail(s))
    ELSE IF s[Len(s)] = " " THEN strip(SubSeq(s, 1, Len(s) - 1))
    ELSE s

\* The characters the class [A-Z0-9] accepts, among those the inputs use.
UpperAlnum == {"A", "B", "1", "2"}

\* validate_lobby_id with the upper limit of the length left out.
validate_lobby_id_no_maximum(lobby_id) ==
    LET u == UpperStr(lobby_id)
    IN  /\ Len(u) >= 4
        /\ \A i \in 1 .. Len(u) : u[i] \in UpperAlnum

\* utils/constants.py LOBBY_ID_PATTERN = ^[A-Z0-9]{4,10}$, matched against
\* lobby_id.upper().
validate_lobby_id(lobby_id) ==
    LET u == UpperStr(lobby_id)
    IN  /\ Len(u) >= 4
        /\ Len(u) <= 10
        /\ \A i \in 1 .. Len(u) : u[i] \in UpperAlnum

\* MatchHelper.is_valid_screenshot: the size test, then the extension (the last
\* dot-separated part of the lower-cased file name).
is_valid_screenshot(attachment) ==
    IF attachment.size > MAX_SCREENSHOT_SIZE_MB * 1024 * 1024
    THEN FALSE
    ELSE Lower(attachment.filename[Len(attachment.filename)]) \in ALLOWED_IMAGE_EXTENSIONS

\* get_next_drafter with the even picks given to leader1.
get_next_drafter_even_first(current_pick, leader1, leader2) ==
    IF current_pick % 2 = 0 THEN leader1 ELSE leader2

\* MatchHelper.get_next_drafter
get_next_drafter(current_pick, leader1, leader2) ==
    IF current_pick % 2 = 1 THEN leader1 ELSE leader2

\* MatchHelper.is_drafting_complete, called without team_size (default 5).
DEFAULT_TEAM_SIZE == 5
is_drafting_complete(team1, team2) ==
    Len(team1) = DEFAULT_TEAM_SIZE /\ Len(team2) = DEFAULT_TEAM_SIZE

Range(s) == {s[i] : i \in 1 .. Len(s)}

\* MatchModel.all_players
all_players(match) == match.team1_players \o match.team2_players

\* MatchModel.is_leader is declared with @property although it takes user_id.
\* Reading match.is_leader therefore runs the getter with self alone, and
\* Python raises TypeError (missing argument user_id) before the caller's
\* parentheses are reached: the call match.is_leader(uid) never returns.
is_leader(match, user_id) == "TypeError"

\* calculate_points_awarded with the MVP bonus put in place of the base delta.
calculate_points_awarded_bonus_only(team1_players, team2_players, winner_team, mvp_id, config) ==
    LET winning_players == IF winner_team = 1 THEN team1_players ELSE team2_players
        losing_players  == IF winner_team = 1 THEN team2_players ELSE team1_players
        base == [p \in Range(winning_players) \cup Range(losing_players) |->
                    IF p \in Range(losing_players) THEN config.points_loss
                                                   ELSE config.points_win]
        keys == DOMAIN base \cup (IF mvp_id # None THEN {mvp_id} ELSE {})
    IN  [p \in keys |-> IF mvp_id # None /\ p = mvp_id THEN config.points_mvp ELSE base[p]]

\* PointsHelper.calculate_points_awarded: a dict filled winners first, losers
\* second (a later assignment to the same key replaces the earlier one), then
\* the MVP bonus added to that key (0 when the MVP has none yet).
\* config: points_win, points_loss, points_mvp.
calculate_points_awarded(team1_players, team2_players, winner_team, mvp_id, config) ==
    LET winning_players == IF winner_team = 1 THEN team1_players ELSE team2_players
        losing_players  == IF winner_team = 1 THEN team2_players ELSE team1_players
        base == [p \in Range(winning_players) \cup Range(losing_players) |->
                    IF p \in Range(losing_players) THEN config.points_loss
                                                   ELSE config.points_win]
        keys == DOMAIN base \cup (IF mvp_id # None THEN {mvp_id} ELSE {})
    IN  [p \in keys |->
            (IF p \in DOMAIN base THEN base[p] ELSE 0)
            + (IF mvp_id # None /\ p = mvp_id THEN config.points_mvp ELSE 0)]

\* ConfigModel.__init__, and the column defaults of a row of config.
ConfigModel ==
    [points_win |-> POINTS_WIN, points_loss |-> POINTS_LOSS, points_mvp |-> POINTS_MVP,
     timeout_minutes |-> PROOF_TIMEOUT_MINUTES, rank_roles_enabled |-> TRUE,
     queue_size |-> QUEUE_SIZE, no_proof_penalty |-> NO_PROOF_PENALTY,
     proof_timeout_minutes |-> PROOF_TIMEOUT_MINUTES]

\* DatabaseManager.get_config: the row of the guild.
guild_config == db_config

---------------------------------------------------------------------------
\* Python dicts that are read in insertion order: a sequence of <<key, value>>.

DictKeys(d) == {d[i][1] : i \in 1 .. Len(d)}
DictGet(d, k) == d[CHOOSE i \in 1 .. Len(d) : d[i][1] = k][2]
\* d[k] = v: an existing key keeps its place, a new key goes last.
DictSet(d, k, v) ==
    IF k \in DictKeys(d)
    THEN [i \in 1 .. Len(d) |-> IF d[i][1] = k THEN <<k, v>> ELSE d[i]]
    ELSE Append(d, <<k, v>>)
\* list(d.values())
DictValues(d) == [i \in 1 .. Len(d) |-> d[i][2]]

---------------------------------------------------------------------------
\* State

\* MatchModel.__init__, and the columns of a freshly inserted row of matches.
MatchModel(match_id, channel_id, team1_players, team2_players, leader1_id, leader2_id) ==
    [match_id |-> match_id, channel_id |-> channel_id,
     team1_players |-> team1_players, team2_players |-> team2_players,
     leader1_id |-> leader1_id, leader2_id |-> leader2_id,
     status |-> DRAFTING, winner_team |-> None, mvp_id |-> None,
     screenshot_url |-> NoneStr, lobby_id |-> NoLobby, cancelled_reason |-> NoneStr]

\* QueueModel.__init__: an empty queue of the default capacity.
QUEUE_MAX_SIZE == 10

QueueModel == [players |-> << >>, max_size |-> QUEUE_MAX_SIZE, last_left_player |-> None]

\* target: the match id the call names, or the channel it arrives in.
Event(op, target, user, arg, result) ==
    [op |-> op, target |-> target, user |-> user, arg |-> arg, result |-> result]

\* Every queued player has a row in players (handle_join_queue creates it),
\* with the column default of points; nobody else has one.
Init ==
    /\ active_matches = << >>
    /\ voting_data = << >>
    /\ db_matches = << >>
    /\ db_points = [p \in Players |-> STARTING_POINTS]
    /\ db_history = << >>
    /\ queue = QueueModel
    /\ joining = {}
    /\ starting = {}
    /\ promoted = << >>
    /\ db_config = ConfigModel
    /\ lastEvent = Event("init", NoneStr, None, 0, "ok")

\* dict.pop(key, None)
Pop(d, k) == [x \in DOMAIN d \ {k} |-> d[x]]
\* d[key] = value
Put(d, k, v) == [x \in DOMAIN d \cup {k} |-> IF x = k THEN v ELSE d[x]]

\* MatchManagement.get_match_from_channel: the id of the first active match of
\* the channel, NoneStr when there is none.
get_match_from_channel(channel_id) ==
    LET hits == {m \in DOMAIN active_matches : active_matches[m].channel_id = channel_id}
    IN  IF hits = {} THEN NoneStr ELSE CHOOSE m \in hits : TRUE

\* DatabaseManager.update_match_status: UPDATE ... WHERE match_id = $1.
update_match_status(db, match_id, status) ==
    IF match_id \in DOMAIN db THEN [db EXCEPT ![match_id].status = status] ELSE db

\* DatabaseManager.set_match_lobby
set_match_lobby(db, match_id, lobby_id) ==
    IF match_id \in DOMAIN db THEN [db EXCEPT ![match_id].lobby_id = lobby_id] ELSE db

\* DatabaseManager.complete_match
db_complete_match(db, match_id, winner_team, mvp_id, screenshot_url) ==
    IF match_id \in DOMAIN db
    THEN [db EXCEPT ![match_id].status = COMPLETED,
                    ![match_id].winner_team = winner_team,
                    ![match_id].mvp_id = mvp_id,
                    ![match_id].screenshot_url = screenshot_url]
    ELSE db

\* DatabaseManager.cancel_match
db_cancel_match(db, match_id, reason) ==
    IF match_id \in DOMAIN db
    THEN [db EXCEPT ![match_id].status = CANCELLED, ![match_id].cancelled_reason = reason]
    ELSE db

\* DatabaseManager.update_player_points for every entry of a delta map:
\* UPDATE players ... WHERE user_id = $1 changes nothing for a user without a row.
apply_points(points, deltas) ==
    [p \in DOMAIN points |-> IF p \in DOMAIN deltas THEN points[p] + deltas[p] ELSE points[p]]

---------------------------------------------------------------------------
\* Match creation: QueueSystem.start_match, then MatchManagement.start_drafting.
\* create_match inserts the row (it fails, and the promotion stops, when the id
\* is taken); start_drafting registers the match and its empty vote ledger and
\* then stops at self.current_pick, an attribute the cog never sets.
start_match(match_id, leader1, leader2) ==
    LET match == MatchModel(match_id, ChannelOf(match_id), <<leader1>>, <<leader2>>,
                            leader1, leader2)
        created == match_id \notin DOMAIN db_matches
    IN  /\ db_matches' = IF created THEN Put(db_matches, match_id, match) ELSE db_matches
        /\ active_matches' = IF created THEN Put(active_matches, match_id, match)
                                        ELSE active_matches
        /\ voting_data' = IF created
                          THEN Put(voting_data, match_id,
                                   [winner_votes |-> << >>, mvp_votes |-> << >>])
                          ELSE voting_data
        /\ UNCHANGED <<db_points, db_history>>
        /\ lastEvent' = Event("start_match", match_id, leader1, leader2,
                              IF created THEN "ok" ELSE "rejected")

\* MatchManagement.complete_drafting, on the match and the table.
complete_drafting_match(match) == [match EXCEPT !.status = WAITING_FOR_LOBBY]

\* handle_draft_pick with the turn test left out.
handle_draft_pick_any_turn(user, match_id, player_id) ==
    LET found == match_id \in DOMAIN active_matches
        match == active_matches[match_id]
        current_pick == Len(match.team1_players) + Len(match.team2_players) - 2
        current_drafter == get_next_drafter(current_pick + 1, match.leader1_id, match.leader2_id)
        picked == IF current_drafter = match.leader1_id
                  THEN [match EXCEPT !.team1_players = Append(@, player_id)]
                  ELSE [match EXCEPT !.team2_players = Append(@, player_id)]
    IN  /\ active_matches' = IF found THEN [active_matches EXCEPT ![match_id] = picked]
                                      ELSE active_matches
        /\ db_matches' = IF found THEN update_match_status(db_matches, match_id, DRAFTING)
                                  ELSE db_matches
        /\ UNCHANGED <<voting_data, db_points, db_history>>
        /\ lastEvent' = Event("draft_pick", match_id, user, player_id,
                              IF found THEN "ok" ELSE "rejected")

\* MatchManagement.handle_draft_pick
handle_draft_pick(user, match_id, player_id) ==
    LET found == match_id \in DOMAIN active_matches
        match == active_matches[match_id]
        current_pick == Len(match.team1_players) + Len(match.team2_players) - 2
        current_drafter == get_next_drafter(current_pick + 1, match.leader1_id, match.leader2_id)
        accepted == found /\ user = current_drafter
        picked == IF current_drafter = match.leader1_id
                  THEN [match EXCEPT !.team1_players = Append(@, player_id)]
                  ELSE [match EXCEPT !.team2_players = Append(@, player_id)]
        complete == is_drafting_complete(picked.team1_players, picked.team2_players)
        after == IF complete THEN complete_drafting_match(picked) ELSE picked
        db1 == update_match_status(db_matches, match_id, DRAFTING)
        db2 == IF complete THEN update_match_status(db1, match_id, WAITING_FOR_LOBBY) ELSE db1
    IN  /\ active_matches' = IF accepted THEN [active_matches EXCEPT ![match_id] = after]
                                         ELSE active_matches
        /\ db_matches' = IF accepted THEN db2 ELSE db_matches
        /\ UNCHANGED <<voting_data, db_points, db_history>>
        /\ lastEvent' = Event("draft_pick", match_id, user, player_id,
                              IF accepted THEN "ok" ELSE "rejected")

\* LobbyView.share_lobby -> handle_lobby_share (only leader2 gets the modal),
\* LobbyModal.on_submit (strip().upper()) -> process_lobby_id.
process_lobby_id(user, channel_id, raw) ==
    LET match_id == get_match_from_channel(channel_id)
        found == match_id # NoneStr
        match == active_matches[match_id]
        lobby_id == UpperStr(strip(LobbyInputs[raw]))
        accepted == found /\ user = match.leader2_id /\ validate_lobby_id(lobby_id)
    IN  /\ active_matches' =
                IF accepted
                THEN [active_matches EXCEPT ![match_id].lobby_id = lobby_id,
                                            ![match_id].status = IN_PROGRESS]
                ELSE active_matches
        /\ db_matches' =
                IF accepted
                THEN update_match_status(set_match_lobby(db_matches, match_id, lobby_id),
                                         match_id, IN_PROGRESS)
                ELSE db_matches
        /\ UNCHANGED <<voting_data, db_points, db_history>>
        /\ lastEvent' = Event("lobby", channel_id, user, raw, IF accepted THEN "ok" ELSE "rejected")

\* MatchManagement.handle_match_cancel_request (the Cancel Match button of the
\* lobby view): without a match in the channel the request is refused; with one,
\* match.is_leader(...) raises before anything is answered.  A leader would be
\* asked to type CANCEL, and no handler reads that answer: the request changes
\* nothing in any case.
handle_match_cancel_request(user, channel_id) ==
    LET match_id == get_match_from_channel(channel_id)
        found == match_id # NoneStr
        leader == IF found THEN is_leader(active_matches[match_id], user) ELSE "False"
    IN  /\ UNCHANGED prog
        /\ lastEvent' = Event("cancel_request", channel_id, user, 0,
                              IF leader = "TypeError" THEN "error"
                              ELSE IF leader = "True" THEN "confirm" ELSE "rejected")

\* handle_draft_pick when a write of the row raises: at "handle_draft_pick" the
\* update_match_status after the append, at "complete_drafting" the one after
\* match.status is set.  The except clause logs the error and answers.
handle_draft_pick_db_error(user, match_id, player_id, at) ==
    LET found == match_id \in DOMAIN active_matches
        match == active_matches[match_id]
        current_pick == Len(match.team1_players) + Len(match.team2_players) - 2
        current_drafter == get_next_drafter(current_pick + 1, match.leader1_id, match.leader2_id)
        accepted == found /\ user = current_drafter
        picked == IF current_drafter = match.leader1_id
                  THEN [match EXCEPT !.team1_players = Append(@, player_id)]
                  ELSE [match EXCEPT !.team2_players = Append(@, player_id)]
        complete == is_drafting_complete(picked.team1_players, picked.team2_players)
        first == at = "handle_draft_pick"
    IN  /\ accepted
        /\ IF first THEN TRUE ELSE complete
        /\ active_matches' = [active_matches EXCEPT
                                  ![match_id] = IF first THEN picked
                                                ELSE complete_drafting_match(picked)]
        /\ db_matches' = IF first THEN db_matches
                                  ELSE update_match_status(db_matches, match_id, DRAFTING)
        /\ UNCHANGED <<voting_data, db_points, db_history>>
        /\ lastEvent' = Event("draft_pick", match_id, user, player_id, "error")

\* process_lobby_id when a write of the row raises: at "set_match_lobby" the
\* first write, before the match is touched, at "update_match_status" the second,
\* after lobby_id and status are set on the match.
process_lobby_id_db_error(user, channel_id, raw, at) ==
    LET match_id == get_match_from_channel(channel_id)
        found == match_id # NoneStr
        match == active_matches[match_id]
        lobby_id == UpperStr(strip(LobbyInputs[raw]))
        accepted == found /\ user = match.leader2_id /\ validate_lobby_id(lobby_id)
        first == at = "set_match_lobby"
    IN  /\ accepted
        /\ active_matches' =
                IF first THEN active_matches
                ELSE [active_matches EXCEPT ![match_id].lobby_id = lobby_id,
                                            ![match_id].status = IN_PROGRESS]
        /\ db_matches' = IF first THEN db_matches
                                  ELSE set_match_lobby(db_matches, match_id, lobby_id)
        /\ UNCHANGED <<voting_data, db_points, db_history>>
        /\ lastEvent' = Event("lobby", channel_id, user, raw, "error")

---------------------------------------------------------------------------
\* Voting

\* MatchManagement.check_match_completion: with a winner and an MVP on the
\* match, proof is requested and the match, in memory and in the table, is VOTING.
check_match_completion(match) ==
    IF match.winner_team # None /\ match.mvp_id # None
    THEN [match EXCEPT !.status = VOTING]
    ELSE match

\* The body of handle_winner_vote / handle_mvp_vote after the leader test, for
\* one of the two ledgers (field "winner_votes" with result field
\* "winner_team", or "mvp_votes" with "mvp_id"): the cog's state after it,
\* as [active, voting, db].
\* self.voting_data.get(match_id, {}) hands out a fresh dict when the match has no
\* ledger: the vote then lands in a dict nobody keeps.
record_vote(match_id, ledger, user, value) ==
    LET kept == match_id \in DOMAIN voting_data
        data == IF kept THEN voting_data[match_id]
                        ELSE [winner_votes |-> << >>, mvp_votes |-> << >>]
        votes_dict == DictSet(data[ledger], user, value)
        votes == DictValues(votes_dict)
        agree == Len(votes_dict) >= 2 /\ votes[1] = votes[2]
        match == active_matches[match_id]
        decided == IF ledger = "winner_votes"
                   THEN [match EXCEPT !.winner_team = votes[1]]
                   ELSE [match EXCEPT !.mvp_id = votes[1]]
        after == IF agree THEN check_match_completion(decided) ELSE match
    IN  [active |-> [active_matches EXCEPT ![match_id] = after],
         voting |-> IF kept THEN [voting_data EXCEPT ![match_id][ledger] = votes_dict]
                            ELSE voting_data,
         db |-> IF agree /\ decided.winner_team # None /\ decided.mvp_id # None
                THEN update_match_status(db_matches, match_id, VOTING)
                ELSE db_matches]

\* The common shape of the two vote handlers: no match in the channel, or
\* not match.is_leader(user): refused; an exception inside the try block: logged,
\* nothing more is done; otherwise the vote is recorded.
handle_vote(op, ledger, user, channel_id, value) ==
    LET match_id == get_match_from_channel(channel_id)
        found == match_id # NoneStr
        leader == IF found THEN is_leader(active_matches[match_id], user) ELSE "False"
        recorded == found /\ leader = "True"
        next == record_vote(match_id, ledger, user, value)
    IN  /\ active_matches' = IF recorded THEN next.active ELSE active_matches
        /\ voting_data' = IF recorded THEN next.voting ELSE voting_data
        /\ db_matches' = IF recorded THEN next.db ELSE db_matches
        /\ UNCHANGED <<db_points, db_history>>
        /\ lastEvent' = Event(op, channel_id, user, value,
                              IF recorded THEN "ok"
                              ELSE IF leader = "TypeError" THEN "error" ELSE "rejected")

\* MatchManagement.handle_winner_vote
handle_winner_vote(user, channel_id, winning_team) ==
    handle_vote("winner_vote", "winner_votes", user, channel_id, winning_team)

\* MatchManagement.handle_mvp_vote
handle_mvp_vote(user, channel_id, mvp_id) ==
    handle_vote("mvp_vote", "mvp_votes", user, channel_id, mvp_id)

---------------------------------------------------------------------------
\* Proof and completion

\* MatchManagement.complete_match: the ledger is computed from the match as it is,
\* every delta is added to its player's points, the row is completed, a history row
\* is inserted, and cleanup_match drops the match and its vote ledger.
\* match_history.winner_team is NOT NULL: for a match without a winner the insert
\* raises after the points and the row are written, and the except clause ends the
\* call before cleanup_match.
\* The cog's state after it, as [active, voting, db, points, history].
complete_match(match, screenshot_url) ==
    LET points_awarded ==
            calculate_points_awarded(match.team1_players, match.team2_players,
                                     match.winner_team, match.mvp_id, guild_config)
        history == [match_id |-> match.match_id,
                    team1_players |-> match.team1_players,
                    team2_players |-> match.team2_players,
                    winner_team |-> match.winner_team, mvp_id |-> match.mvp_id,
                    points_awarded |-> points_awarded,
                    screenshot_url |-> screenshot_url]
        inserted == match.winner_team # None
    IN  [active |-> IF inserted THEN Pop(active_matches, match.match_id) ELSE active_matches,
         voting |-> IF inserted THEN Pop(voting_data, match.match_id) ELSE voting_data,
         db |-> db_complete_match(db_matches, match.match_id, match.winner_team,
                                  match.mvp_id, screenshot_url),
         points |-> apply_points(db_points, points_awarded),
         history |-> IF inserted THEN Append(db_history, history) ELSE db_history]

\* complete_match called on the registered match of match_id.
complete_match_call(match_id, att) ==
    LET next == complete_match(active_matches[match_id], Attachments[att].url)
    IN  /\ match_id \in DOMAIN active_matches
        /\ active_matches' = next.active
        /\ voting_data' = next.voting
        /\ db_matches' = next.db
        /\ db_points' = next.points
        /\ db_history' = next.history
        /\ lastEvent' = Event("complete_match", match_id, None, att, "ok")

\* on_message with the status test left out.
proof_accepted_any_status(author, channel_id, att) ==
    LET match_id == get_match_from_channel(channel_id)
        match == active_matches[match_id]
        winning_leader == IF match.winner_team = 1 THEN match.leader1_id ELSE match.leader2_id
    IN  /\ att # 0
        /\ match_id # NoneStr
        /\ author = winning_leader
        /\ is_valid_screenshot(Attachments[att])

\* The tests of on_message that let an upload through to complete_match:
\* a match in the channel, in VOTING, posted by the leader of the winning team
\* (leader2 whenever winner_team is not 1), first attachment a valid screenshot.
\* att is the index of the first attachment, 0 for a message without any.
proof_accepted(author, channel_id, att) ==
    LET match_id == get_match_from_channel(channel_id)
        match == active_matches[match_id]
        winning_leader == IF match.winner_team = 1 THEN match.leader1_id ELSE match.leader2_id
    IN  /\ att # 0
        /\ match_id # NoneStr
        /\ match.status = VOTING
        /\ author = winning_leader
        /\ is_valid_screenshot(Attachments[att])

\* MatchManagement.on_message, for a message of a user (not a bot).
on_message(author, channel_id, att) ==
    LET accepted == proof_accepted(author, channel_id, att)
        next == complete_match(active_matches[get_match_from_channel(channel_id)],
                               Attachments[att].url)
    IN  /\ active_matches' = IF accepted THEN next.active ELSE active_matches
        /\ voting_data' = IF accepted THEN next.voting ELSE voting_data
        /\ db_matches' = IF accepted THEN next.db ELSE db_matches
        /\ db_points' = IF accepted THEN next.points ELSE db_points
        /\ db_history' = IF accepted THEN next.history ELSE db_history
        /\ lastEvent' = Event("upload", channel_id, author, att, IF accepted THEN "ok" ELSE "rejected")

---------------------------------------------------------------------------
\* Timeout sweep

\* match_management.py never imports datetime (its imports are asyncio, logging,
\* typing, re, discord, the database, utils and config modules), so the
\* datetime.utcnow() of check_proof_timeouts raises NameError.
datetime_utcnow == "NameError"

\* MatchManagement.auto_cancel_match on the cog's state st:
\* both leaders lose NO_PROOF_PENALTY, the row is cancelled, the match is dropped.
auto_cancel_match(st, match, reason) ==
    LET p1 == apply_points(st.points, [p \in {match.leader1_id} |-> -NO_PROOF_PENALTY])
        p2 == apply_points(p1, [p \in {match.leader2_id} |-> -NO_PROOF_PENALTY])
    IN  [active |-> Pop(st.active, match.match_id),
         voting |-> Pop(st.voting, match.match_id),
         db |-> db_cancel_match(st.db, match.match_id, reason),
         points |-> p2,
         history |-> st.history]

RECURSIVE cancel_all(_, _)
cancel_all(st, ids) ==
    IF ids = {} THEN st
    ELSE LET m == CHOOSE x \in ids : TRUE
         IN  cancel_all(auto_cancel_match(st, active_matches[m],
                                          "No proof provided within time limit"),
                        ids \ {m})

\* MatchManagement.check_proof_timeouts.  expired: the VOTING matches whose
\* updated_at the clock would find more than PROOF_TIMEOUT_MINUTES old.
\* The first VOTING match of the loop raises at datetime.utcnow(); the except
\* around the loop logs it and the sweep ends.
check_proof_timeouts(expired) ==
    LET voting == {m \in DOMAIN active_matches : active_matches[m].status = VOTING}
        st == [active |-> active_matches, voting |-> voting_data, db |-> db_matches,
               points |-> db_points, history |-> db_history]
        next == IF voting = {} \/ datetime_utcnow = "NameError"
                THEN st
                ELSE cancel_all(st, expired \cap voting)
    IN  /\ active_matches' = next.active
        /\ voting_data' = next.voting
        /\ db_matches' = next.db
        /\ db_points' = next.points
        /\ db_history' = next.history
        /\ lastEvent' = Event("sweep", NoneStr, None, 0,
                              IF voting = {} THEN "ok"
                              ELSE IF datetime_utcnow = "NameError" THEN "error" ELSE "ok")

---------------------------------------------------------------------------
\* Administrator commands (AdminCommands.match_admin, after its permission test)

\* int(team_str); -1 stands for ValueError.
int(team_str) ==
    CASE team_str = "1" -> 1
      [] team_str = "2" -> 2
      [] team_str = "3" -> 3
      [] team_str = "-5" -> -5
      [] team_str = "0" -> 0
      [] team_str = "5" -> 5
      [] team_str = "20000" -> 20000
      [] OTHER -> -1

\* re.match(r'<@!?(\d+)>', player_mention): the user id, None without a match.
mention_user_id(mention) ==
    IF mention.open \in {"<@", "<@!"} /\ mention.close = ">" THEN mention.id ELSE None

\* AdminCommands.force_cancel_match
force_cancel_match(match_id) ==
    LET found == match_id \in DOMAIN db_matches
    IN  /\ db_matches' = IF found THEN db_cancel_match(db_matches, match_id, "Admin cancelled")
                                  ELSE db_matches
        /\ UNCHANGED <<active_matches, voting_data, db_points, db_history>>
        /\ lastEvent' = Event("force_cancel", match_id, None, 0, IF found THEN "ok" ELSE "rejected")

\* AdminCommands.force_winner
force_winner(match_id, t) ==
    LET found == match_id \in DOMAIN db_matches
        team == int(TeamStrs[t])
        accepted == found /\ team \in {1, 2}
    IN  /\ db_matches' = IF accepted
                         THEN db_complete_match(db_matches, match_id, team, None, NoneStr)
                         ELSE db_matches
        /\ UNCHANGED <<active_matches, voting_data, db_points, db_history>>
        /\ lastEvent' = Event("force_winner", match_id, None, t, IF accepted THEN "ok" ELSE "rejected")

\* force_mvp with the roster test left out.
force_mvp_unchecked(match_id, k) ==
    LET found == match_id \in DOMAIN db_matches
        match == db_matches[match_id]
        user_id == mention_user_id(Mentions[k])
        accepted == found /\ user_id # None
        winner == IF match.winner_team # None THEN match.winner_team ELSE 1
    IN  /\ db_matches' = IF accepted
                         THEN db_complete_match(db_matches, match_id, winner, user_id, NoneStr)
                         ELSE db_matches
        /\ UNCHANGED <<active_matches, voting_data, db_points, db_history>>
        /\ lastEvent' = Event("force_mvp", match_id, None, k, IF accepted THEN "ok" ELSE "rejected")

\* AdminCommands.force_mvp: the match is the row db.get_match reads back, so
\* all_players is the row's team1_players + team2_players.
force_mvp(match_id, k) ==
    LET found == match_id \in DOMAIN db_matches
        match == db_matches[match_id]
        user_id == mention_user_id(Mentions[k])
        accepted == found /\ user_id # None /\ user_id \in Range(all_players(match))
        winner == IF match.winner_team # None THEN match.winner_team ELSE 1
    IN  /\ db_matches' = IF accepted
                         THEN db_complete_match(db_matches, match_id, winner, user_id, NoneStr)
                         ELSE db_matches
        /\ UNCHANGED <<active_matches, voting_data, db_points, db_history>>
        /\ lastEvent' = Event("force_mvp", match_id, None, k, IF accepted THEN "ok" ELSE "rejected")

\* ValidationHelper.validate_points
validate_points(points) == -10000 <= points /\ points <= 10000

\* ValidationHelper.validate_timeout_minutes
validate_timeout_minutes(minutes) == 1 <= minutes /\ minutes <= 1440

\* ValidationHelper.validate_queue_size
validate_queue_size(size) == 4 <= size /\ size <= 20

\* DatabaseManager.update_config, for one column.
update_config(config, key, value) == [config EXCEPT ![key] = value]

\* AdminCommands.set_config: the setting is put in lower case, the value is
\* converted and tested as the setting asks, and the column is written.
set_config(setting_text, v) ==
    LET setting == Lower(setting_text)
        value == ConfigValues[v]
        int_value == int(value)
        number == int_value # -1
        valid ==
            CASE setting \in {"points_win", "points_mvp", "points_loss", "no_proof_penalty"}
                    -> number /\ validate_points(int_value)
              [] setting \in {"timeout_minutes", "proof_timeout_minutes"}
                    -> number /\ validate_timeout_minutes(int_value)
              [] setting = "queue_size" -> number /\ validate_queue_size(int_value)
              [] setting = "rank_roles_enabled" -> TRUE
              [] OTHER -> FALSE
        stored ==
            CASE setting = "points_loss" -> IF int_value > 0 THEN 0 - int_value ELSE int_value
              [] setting = "rank_roles_enabled"
                    -> Lower(value) \in {"true", "yes", "1", "on", "enable"}
              [] OTHER -> int_value
    IN  /\ db_config' = IF valid THEN update_config(db_config, setting, stored) ELSE db_config
        /\ UNCHANGED <<prog, qvars>>
        /\ lastEvent' = Event("set_config", setting_text, None, v,
                              IF valid THEN "ok" ELSE "rejected")

---------------------------------------------------------------------------
\* The queue: QueueModel, QueueHelper and the handlers of QueueSystem

\* list.remove: the first occurrence goes, the order of the rest stays.
list_remove(s, x) ==
    LET i == CHOOSE k \in 1 .. Len(s) : s[k] = x /\ \A j \in 1 .. (k - 1) : s[j] # x
    IN  SubSeq(s, 1, i - 1) \o SubSeq(s, i + 1, Len(s))

\* add_player with the new player put at the head of the list.
add_player_at_front(q, user_id) ==
    IF user_id \notin Range(q.players) /\ Len(q.players) < q.max_size
    THEN [q EXCEPT !.players = <<user_id>> \o @]
    ELSE q

\* QueueModel.add_player
add_player(q, user_id) ==
    IF user_id \notin Range(q.players) /\ Len(q.players) < q.max_size
    THEN [q EXCEPT !.players = Append(@, user_id)]
    ELSE q

\* QueueModel.remove_player
remove_player(q, user_id) ==
    IF user_id \in Range(q.players)
    THEN [q EXCEPT !.players = list_remove(@, user_id), !.last_left_player = user_id]
    ELSE q

\* QueueModel.is_full
is_full(q) == Len(q.players) >= q.max_size

\* can_join_queue with the membership test left out.
can_join_queue_no_membership_test(player_id, queue_players, max_size, is_timed_out) ==
    IF is_timed_out THEN "You are currently timed out from joining the queue!"
    ELSE IF Len(queue_players) >= max_size THEN "The queue is full!"
    ELSE "OK"

\* QueueHelper.can_join_queue: the reason of the refusal, "OK" when there is none.
can_join_queue(player_id, queue_players, max_size, is_timed_out) ==
    IF is_timed_out THEN "You are currently timed out from joining the queue!"
    ELSE IF player_id \in Range(queue_players) THEN "You are already in the queue!"
    ELSE IF Len(queue_players) >= max_size THEN "The queue is full!"
    ELSE "OK"

\* QueueHelper.can_leave_queue
can_leave_queue(player_id, queue_players) ==
    IF player_id \notin Range(queue_players) THEN "You are not in the queue!" ELSE "OK"

\* The positions random.sample is let to draw from: the two ends of the list.
SamplePositions(players) == {1, Len(players)} \cap DOMAIN players

\* select_random_leaders with a draw that may return one position twice.
select_random_leaders_with_replacement(players) ==
    {<<players[i], players[j]>> : i \in SamplePositions(players), j \in SamplePositions(players)}

\* MatchHelper.select_random_leaders: random.sample(players, 2), the ordered
\* pairs of two different positions of the list.
select_random_leaders(players) ==
    {<<players[pos[1]], players[pos[2]]>> :
        pos \in {pp \in SamplePositions(players) \X SamplePositions(players) : pp[1] # pp[2]}}

\* handle_join_queue up to its first await after the queue changed: the row of
\* the player is created when missing, can_join_queue decides, add_player
\* appends.  The handler then awaits the queue table and the queue message.
handle_join_queue(user, is_timed_out) ==
    LET reason == can_join_queue(user, queue.players, queue.max_size, is_timed_out)
    IN  /\ db_points' = IF user \in DOMAIN db_points THEN db_points
                                                    ELSE Put(db_points, user, STARTING_POINTS)
        /\ queue' = IF reason = "OK" THEN add_player(queue, user) ELSE queue
        /\ joining' = IF reason = "OK" THEN joining \cup {user} ELSE joining
        /\ UNCHANGED <<active_matches, voting_data, db_matches, db_history, starting, promoted>>
        /\ lastEvent' = Event("handle_join_queue", NoneStr, user,
                              IF is_timed_out THEN 1 ELSE 0, reason)

\* start_match up to its await of create_match_channel: the id and the leaders
\* are drawn, the channel is requested for the players queued at that moment.
start_match_begin(match_id, leaders) ==
    [match_id |-> match_id, leader1 |-> leaders[1], leader2 |-> leaders[2],
     players |-> queue.players]

\* handle_join_queue after its awaits: the queue is tested for being full, and
\* start_match is entered when it is.
join_resume(user, match_id, leaders) ==
    /\ user \in joining
    /\ joining' = joining \ {user}
    /\ starting' = IF is_full(queue) THEN starting \cup {start_match_begin(match_id, leaders)}
                                     ELSE starting
    /\ UNCHANGED <<prog, queue, promoted>>
    /\ lastEvent' = Event("join_resume", IF is_full(queue) THEN match_id ELSE NoneStr, user,
                          Len(queue.players),
                          IF is_full(queue) THEN "start_match" ELSE "queue_join_success")

\* handle_leave_queue
handle_leave_queue(user) ==
    LET reason == can_leave_queue(user, queue.players)
    IN  /\ queue' = IF reason = "OK" THEN remove_player(queue, user) ELSE queue
        /\ UNCHANGED <<prog, joining, starting, promoted>>
        /\ lastEvent' = Event("handle_leave_queue", NoneStr, user, 0, reason)

\* force_start: at least four players, an even number of them.
force_start(match_id, leaders) ==
    LET current_players == Len(queue.players)
        accepted == current_players >= 4 /\ current_players % 2 = 0
    IN  /\ starting' = IF accepted THEN starting \cup {start_match_begin(match_id, leaders)}
                                    ELSE starting
        /\ UNCHANGED <<prog, queue, joining, promoted>>
        /\ lastEvent' = Event("force_start", IF accepted THEN match_id ELSE NoneStr, None,
                              current_players, IF accepted THEN "start_match" ELSE "rejected")

\* start_match_resume with the queue cleared before create_match answers.
start_match_resume_clears_first(call) ==
    LET created == call.match_id \notin DOMAIN db_matches
    IN  /\ call \in starting
        /\ starting' = starting \ {call}
        /\ start_match(call.match_id, call.leader1, call.leader2)
        /\ queue' = [queue EXCEPT !.players = << >>, !.last_left_player = None]
        /\ promoted' = IF created THEN Put(promoted, call.match_id, call.players)
                                  ELSE promoted
        /\ UNCHANGED joining

\* start_match when create_match_channel returns None: the error is sent to the
\* queue channel and the call ends.
start_match_no_channel(call) ==
    /\ call \in starting
    /\ starting' = starting \ {call}
    /\ UNCHANGED <<prog, queue, joining, promoted>>
    /\ lastEvent' = Event("start_match", call.match_id, call.leader1, call.leader2,
                          "no_channel")

\* start_match once the channel exists: create_match inserts the row, the queue
\* is cleared and the draft is started; a taken id ends the call before that.
start_match_resume(call) ==
    LET created == call.match_id \notin DOMAIN db_matches
    IN  /\ call \in starting
        /\ starting' = starting \ {call}
        /\ start_match(call.match_id, call.leader1, call.leader2)
        /\ queue' = IF created THEN [queue EXCEPT !.players = << >>,
                                                  !.last_left_player = None]
                               ELSE queue
        /\ promoted' = IF created THEN Put(promoted, call.match_id, call.players)
                                  ELSE promoted
        /\ UNCHANGED joining

---------------------------------------------------------------------------
\* The next-state relation

\* The player a drafter is offered: the lowest-numbered player not yet on a
\* team, or, once all are rostered, a player who already is.
PickChoices(match_id) ==
    IF match_id \notin DOMAIN active_matches THEN {3}
    ELSE LET free == Players \ Range(all_players(active_matches[match_id]))
         IN  IF free = {} THEN {3} ELSE {CHOOSE p \in free : \A q \in free : p <= q}

PicksMade(match_id) ==
    IF match_id \notin DOMAIN active_matches THEN 0
    ELSE Len(all_players(active_matches[match_id])) - 2

\* A promotion of the players 1 .. QUEUE_SIZE in one step.
FullQueue == [i \in 1 .. QUEUE_SIZE |-> i]

StartMatch ==
    /\ \E m \in MatchIds, lp \in LeaderPairs :
           /\ start_match(m, lp[1], lp[2])
           /\ promoted' = IF m \in DOMAIN db_matches THEN promoted
                                                     ELSE Put(promoted, m, FullQueue)
    /\ UNCHANGED <<queue, joining, starting, db_config>>

DraftPick ==
    /\ \E u \in Actors, m \in MatchIds :
           /\ PicksMade(m) < MaxPicks
           /\ \E p \in PickChoices(m) : handle_draft_pick(u, m, p)
    /\ UNCHANGED <<qvars, db_config>>

LobbySubmit ==
    /\ \E u \in Actors, m \in MatchIds, raw \in DOMAIN LobbyInputs :
           process_lobby_id(u, ChannelOf(m), raw)
    /\ UNCHANGED <<qvars, db_config>>

WinnerVote ==
    /\ \E u \in Actors, m \in MatchIds, team \in {1, 2} :
           handle_winner_vote(u, ChannelOf(m), team)
    /\ UNCHANGED <<qvars, db_config>>

MvpVote ==
    /\ \E u \in Actors, m \in MatchIds, mvp \in {1, 3, Outsider} :
           handle_mvp_vote(u, ChannelOf(m), mvp)
    /\ UNCHANGED <<qvars, db_config>>

Upload ==
    /\ \E u \in Actors, m \in MatchIds, att \in {0} \cup DOMAIN Attachments :
           on_message(u, ChannelOf(m), att)
    /\ UNCHANGED <<qvars, db_config>>

Sweep ==
    /\ \E expired \in SUBSET MatchIds : check_proof_timeouts(expired)
    /\ UNCHANGED <<qvars, db_config>>

ForceCancel ==
    /\ \E m \in MatchIds : force_cancel_match(m)
    /\ UNCHANGED <<qvars, db_config>>

ForceWinner ==
    /\ \E m \in MatchIds, t \in DOMAIN TeamStrs : force_winner(m, t)
    /\ UNCHANGED <<qvars, db_config>>

ForceMvp ==
    /\ \E m \in MatchIds, k \in DOMAIN Mentions : force_mvp(m, k)
    /\ UNCHANGED <<qvars, db_config>>

CancelRequest ==
    /\ \E u \in Actors, m \in MatchIds : handle_match_cancel_request(u, ChannelOf(m))
    /\ UNCHANGED <<qvars, db_config>>

Next ==
    \/ StartMatch
    \/ DraftPick
    \/ LobbySubmit
    \/ CancelRequest
    \/ WinnerVote
    \/ MvpVote
    \/ Upload
    \/ Sweep
    \/ ForceCancel
    \/ ForceWinner
    \/ ForceMvp

Spec == Init /\ [][Next]_vars

\* The completion path on its own: complete_match is called on a registered match,
\* by on_message or directly, while the draft goes on.
PointsSpan == MaxCompletions * POINTS_WIN

CompleteMatch ==
    /\ \E m \in MatchIds, att \in {1} :
           /\ \A p \in Players : db_points[p] - STARTING_POINTS \in (1 - PointsSpan) .. (PointsSpan - 1)
           /\ complete_match_call(m, att)
    /\ UNCHANGED <<qvars, db_config>>

NextCompletion ==
    \/ StartMatch
    \/ DraftPick
    \/ Upload
    \/ CompleteMatch

SpecCompletion == Init /\ [][NextCompletion]_vars

\* The draft on its own, with everything a pick can name: the next free player
\* of the queue, a player already on a team, a user who never queued.
DraftInputs(match_id) ==
    PickChoices(match_id)
    \cup (IF match_id \in DOMAIN active_matches
          THEN {active_matches[match_id].leader2_id} ELSE {})
    \cup {Outsider}

DraftPickAny ==
    /\ \E u \in Actors, m \in MatchIds :
           /\ PicksMade(m) < MaxDraftPicks
           /\ \E p \in DraftInputs(m) : handle_draft_pick(u, m, p)
    /\ UNCHANGED <<qvars, db_config>>

NextDraft ==
    \/ StartMatch
    \/ DraftPickAny

SpecDraft == Init /\ [][NextDraft]_vars

\* The ledger of the rosters a draft leaves behind, for a winner and an MVP:
\* the drafters name the next free player or a player already on a team.
RosterInputs(match_id) == DraftInputs(match_id) \ {Outsider}

DraftPickRoster ==
    /\ \E u \in Actors, m \in MatchIds :
           /\ PicksMade(m) < MaxLedgerPicks
           /\ \E p \in RosterInputs(m) : handle_draft_pick(u, m, p)
    /\ UNCHANGED <<qvars, db_config>>

\* PointsHelper.calculate_points_awarded on the rosters of the registered match.
ledger_call(match_id, winner_team, mvp_id) ==
    /\ match_id \in DOMAIN active_matches
    /\ lastEvent' = Event("calculate_points_awarded", match_id, mvp_id, winner_team,
                          calculate_points_awarded(active_matches[match_id].team1_players,
                                                   active_matches[match_id].team2_players,
                                                   winner_team, mvp_id, guild_config))
    /\ UNCHANGED prog

LedgerCall ==
    /\ \E m \in MatchIds, winner_team \in {None, 1, 2}, mvp_id \in {None, 1, 3, Outsider} :
           ledger_call(m, winner_team, mvp_id)
    /\ UNCHANGED <<qvars, db_config>>

NextLedger ==
    \/ StartMatch
    \/ DraftPickRoster
    \/ LedgerCall

SpecLedger == Init /\ [][NextLedger]_vars

\* The queue on its own: join and leave handlers that interleave at their
\* awaits, the promotion they trigger, the forcestart command.
QueueUsers == Players \cup {Outsider}

\* Who presses Join: the lowest-numbered user outside the queue, or the user
\* at its head.
JoinInputs ==
    LET outside == QueueUsers \ Range(queue.players)
    IN  {u \in outside : \A v \in outside : u <= v}
        \cup {queue.players[i] : i \in {1} \cap DOMAIN queue.players}

\* Who presses Leave: the user at the tail, the user at the head of a queue
\* of two, or one never queued.
LeaveInputs ==
    {queue.players[i] : i \in {Len(queue.players)} \cap DOMAIN queue.players}
    \cup {queue.players[i] : i \in (IF Len(queue.players) = 2 THEN {1} ELSE {})}
    \cup {Outsider}

\* The draws of select_random_leaders; a list too short to draw from is never
\* handed to it.
LeaderDraws(needed) ==
    IF needed THEN select_random_leaders(queue.players) ELSE {<<None, None>>}

\* Calls suspended between two of their steps.
InFlight == Cardinality(joining) + Cardinality(starting)

JoinQueue ==
    /\ \E u \in JoinInputs, is_timed_out \in BOOLEAN :
           /\ u \notin joining
           /\ IF can_join_queue(u, queue.players, queue.max_size, is_timed_out) = "OK"
              THEN InFlight < MaxInFlight ELSE TRUE
           /\ handle_join_queue(u, is_timed_out)
    /\ UNCHANGED db_config

JoinResume ==
    /\ \E u \in joining, m \in MatchIds, lp \in LeaderDraws(is_full(queue)) :
           join_resume(u, m, lp)
    /\ UNCHANGED db_config

LeaveQueue ==
    /\ \E u \in LeaveInputs : handle_leave_queue(u)
    /\ UNCHANGED db_config

ForceStart ==
    /\ \E m \in MatchIds, lp \in LeaderDraws(Len(queue.players) >= 4) :
           /\ InFlight < MaxInFlight
           /\ force_start(m, lp)
    /\ UNCHANGED db_config

StartMatchResume ==
    /\ \E call \in starting : start_match_resume(call)
    /\ UNCHANGED db_config

StartMatchNoChannel ==
    /\ \E call \in starting : start_match_no_channel(call)
    /\ UNCHANGED db_config

NextQueue ==
    \/ JoinQueue
    \/ JoinResume
    \/ LeaveQueue
    \/ StartMatchResume
    \/ StartMatchNoChannel

SpecQueue == Init /\ [][NextQueue]_vars

\* A match promoted from the queue, by the join that fills it or by forcestart,
\* and its draft: the leaders and a user who never queued press the buttons,
\* the pick names the first promoted player not yet on a team, or the second
\* leader once all are.
DraftActors(match_id) ==
    (IF match_id \in DOMAIN active_matches THEN {active_matches[match_id].leader1_id, active_matches[match_id].leader2_id}
     ELSE {})
    \cup {Outsider}

PromotedChoices(match_id) ==
    IF match_id \notin DOMAIN active_matches \/ match_id \notin DOMAIN promoted THEN {Outsider}
    ELSE LET match == active_matches[match_id]
             free == {i \in DOMAIN promoted[match_id] :
                         promoted[match_id][i] \notin Range(all_players(match))}
         IN  IF free = {} THEN {match.leader2_id}
             ELSE {promoted[match_id][CHOOSE i \in free : \A j \in free : i <= j]}

DraftPickPromoted ==
    /\ \E m \in MatchIds :
           /\ PicksMade(m) < MaxForcePicks
           /\ \E u \in DraftActors(m), p \in PromotedChoices(m) : handle_draft_pick(u, m, p)
    /\ UNCHANGED <<qvars, db_config>>

NextForce ==
    \/ JoinQueue
    \/ JoinResume
    \/ ForceStart
    \/ StartMatchResume
    \/ DraftPickPromoted

SpecForce == Init /\ [][NextForce]_vars

\* Joins that meet at the moment the queue fills, with two ids to draw from.
RaceIds == {"#001", "#002"}

JoinRace ==
    /\ \E u \in JoinInputs :
           /\ u \notin joining
           /\ IF can_join_queue(u, queue.players, queue.max_size, FALSE) = "OK"
              THEN InFlight < MaxRacing ELSE TRUE
           /\ handle_join_queue(u, FALSE)
    /\ UNCHANGED db_config

JoinResumeRace ==
    /\ \E u \in joining, m \in RaceIds, lp \in LeaderDraws(is_full(queue)) :
           join_resume(u, m, lp)
    /\ UNCHANGED db_config

NextRace ==
    \/ JoinRace
    \/ JoinResumeRace
    \/ StartMatchResume

SpecRace == Init /\ [][NextRace]_vars

\* The draft and the lobby with writes of the row that may raise.
DraftPickDbError ==
    /\ \E u \in Actors, m \in MatchIds, at \in {"handle_draft_pick", "complete_drafting"} :
           /\ PicksMade(m) < MaxPicks
           /\ \E p \in PickChoices(m) : handle_draft_pick_db_error(u, m, p, at)
    /\ UNCHANGED <<qvars, db_config>>

LobbyDbError ==
    /\ \E u \in Actors, m \in MatchIds, raw \in DOMAIN LobbyInputs,
          at \in {"set_match_lobby", "update_match_status"} :
           process_lobby_id_db_error(u, ChannelOf(m), raw, at)
    /\ UNCHANGED <<qvars, db_config>>

NextFault ==
    \/ StartMatch
    \/ DraftPick
    \/ DraftPickDbError
    \/ LobbySubmit
    \/ LobbyDbError

SpecFault == Init /\ [][NextFault]_vars

\* The settings of the guild on their own.
SetConfig == \E setting \in ConfigSettings, v \in DOMAIN ConfigValues : set_config(setting, v)

\* AdminCommands.show_config reads the row and changes nothing.
ShowConfig ==
    /\ UNCHANGED <<prog, qvars, db_config>>
    /\ lastEvent' = Event("show_config", NoneStr, None, 0, "ok")

NextConfig ==
    \/ SetConfig
    \/ ShowConfig

SpecConfig == Init /\ [][NextConfig]_vars

---------------------------------------------------------------------------
\* Vocabulary of the properties

Terminal(status) == status \in {COMPLETED, CANCELLED}

\* The leaders of a match, as the specification names them.
Leaders(match) == {match.leader1_id, match.leader2_id}

\* The history rows of a match.
HistoryRows(match_id) == {i \in 1 .. Len(db_history) : db_history[i].match_id = match_id}

\* Everyone on a team of the match, in its row or in the registry.
Participants(match_id) ==
    (IF match_id \in DOMAIN db_matches
     THEN Range(all_players(db_matches[match_id])) ELSE {})
    \cup (IF match_id \in DOMAIN active_matches
          THEN Range(all_players(active_matches[match_id])) ELSE {})

\* The edges of the transition table.
TransitionTable ==
    {<<DRAFTING, WAITING_FOR_LOBBY>>, <<WAITING_FOR_LOBBY, IN_PROGRESS>>,
     <<IN_PROGRESS, VOTING>>, <<VOTING, COMPLETED>>, <<VOTING, CANCELLED>>}
    \cup {<<s, CANCELLED>> : s \in {DRAFTING, WAITING_FOR_LOBBY, IN_PROGRESS, VOTING}}

---------------------------------------------------------------------------
\* C3: once the status of a match is COMPLETED or CANCELLED, no step changes
\* its row (status, winner_team, mvp_id, lobby_id, proof reference,
\* cancellation reason) or the rosters and fields of its registered match.
C3_TerminalMatchFrozen ==
    [][\A m \in DOMAIN db_matches :
          Terminal(db_matches[m].status) =>
              /\ db_matches'[m] = db_matches[m]
              /\ (m \in DOMAIN active_matches /\ m \in DOMAIN active_matches'
                      => active_matches'[m] = active_matches[m])]_vars

\* C4: every change of a match's status, in its row and in the registry, is an
\* edge of the transition table.
C4_StatusFollowsTable ==
    [][/\ \A m \in DOMAIN db_matches :
              db_matches'[m].status # db_matches[m].status
                  => <<db_matches[m].status, db_matches'[m].status>> \in TransitionTable
       /\ \A m \in DOMAIN active_matches \cap DOMAIN active_matches' :
              active_matches'[m].status # active_matches[m].status
                  => <<active_matches[m].status, active_matches'[m].status>>
                         \in TransitionTable]_vars

\* C5: a match recorded COMPLETED has a winner (team 1 or 2) and exactly one
\* settlement: one history row carrying its ledger.
C5_CompletedIsSettled ==
    \A m \in DOMAIN db_matches :
        db_matches[m].status = COMPLETED =>
            /\ db_matches[m].winner_team \in {1, 2}
            /\ Cardinality(HistoryRows(m)) = 1

\* The registered match of the channel the last call arrived in, when the call
\* was a vote of one of its leaders and the match is not terminal.
LeaderVoted(m, op) ==
    /\ lastEvent.op = op
    /\ lastEvent.target = active_matches[m].channel_id
    /\ lastEvent.user \in Leaders(active_matches[m])
    /\ ~Terminal(active_matches[m].status)
    /\ ~Terminal(db_matches[m].status)

\* The vote the last call cast is the one the ledger holds for that leader.
VoteStored(m, ledger) ==
    /\ m \in DOMAIN voting_data
    /\ lastEvent.user \in DictKeys(voting_data[m][ledger])
    /\ DictGet(voting_data[m][ledger], lastEvent.user) = lastEvent.arg

\* C8: a winner vote or MVP vote cast by leader1 or leader2 of a non-terminal
\* match is stored in the vote ledger.
C8_LeaderVoteIsRecorded ==
    \A m \in DOMAIN active_matches :
        /\ LeaderVoted(m, "winner_vote") => VoteStored(m, "winner_votes")
        /\ LeaderVoted(m, "mvp_vote") => VoteStored(m, "mvp_votes")

\* C7: the winner ledger keeps each leader's last vote; with both leaders' votes
\* in and different no winner is finalized, with both in and equal the winner is
\* that value.
C7_WinnerConsensus ==
    \A m \in DOMAIN active_matches :
        LET match == active_matches[m]
            votes == IF m \in DOMAIN voting_data THEN voting_data[m].winner_votes ELSE << >>
            both == Leaders(match) \subseteq DictKeys(votes)
            v1 == DictGet(votes, match.leader1_id)
            v2 == DictGet(votes, match.leader2_id)
        IN  /\ LeaderVoted(m, "winner_vote") =>
                  /\ lastEvent.user \in DictKeys(votes)
                  /\ DictGet(votes, lastEvent.user) = lastEvent.arg
            /\ (both /\ v1 # v2) => match.winner_team = None
            /\ (both /\ v1 = v2) => match.winner_team = v1
            /\ ~both => match.winner_team = None

\* The point changes one ledger can give a player.
LedgerDeltas ==
    {0, POINTS_WIN, POINTS_LOSS, POINTS_WIN + POINTS_MVP, POINTS_LOSS + POINTS_MVP, POINTS_MVP}

MvpIsParticipant ==
    /\ \A m \in DOMAIN db_matches :
           db_matches[m].mvp_id = None \/ db_matches[m].mvp_id \in Participants(m)
    /\ \A m \in DOMAIN active_matches :
           active_matches[m].mvp_id = None \/ active_matches[m].mvp_id \in Participants(m)

\* The step is an MVP vote or a force-MVP that names someone who is not a
\* participant of the match it is aimed at.
NamesNonParticipant ==
    CASE lastEvent'.op = "force_mvp" ->
             mention_user_id(Mentions[lastEvent'.arg]) \notin Participants(lastEvent'.target)
      [] lastEvent'.op = "mvp_vote" ->
             \A m \in DOMAIN active_matches :
                 active_matches[m].channel_id = lastEvent'.target
                     => lastEvent'.arg \notin Participants(m)
      [] OTHER -> FALSE

ValidProofs == {a \in DOMAIN Attachments :
                   /\ Attachments[a].size <= MAX_SCREENSHOT_SIZE_MB * BytesPerMB
                   /\ a \in {1, 2, 4}}

\* The leader of the team recorded as the winner.
WinningLeader(match) ==
    CASE match.winner_team = 1 -> match.leader1_id
      [] match.winner_team = 2 -> match.leader2_id
      [] OTHER -> None

\* The upload of this step meets the completion guard.
UploadMeetsGuard ==
    \E m \in DOMAIN active_matches :
        /\ active_matches[m].channel_id = lastEvent'.target
        /\ active_matches[m].status = VOTING
        /\ lastEvent'.user = WinningLeader(active_matches[m])
        /\ lastEvent'.arg \in ValidProofs

---------------------------------------------------------------------------
\* The ledger

\* The last call computed a ledger for the registered match it names.
LedgerComputed == lastEvent.op = "calculate_points_awarded"

RECURSIVE SumDeltas(_, _)
SumDeltas(deltas, keys) ==
    IF keys = {} THEN 0
    ELSE LET p == CHOOSE q \in keys : TRUE
         IN  deltas[p] + SumDeltas(deltas, keys \ {p})

\* C15: for disjoint teams and an MVP that is unset or a participant, the
\* ledger's keys are exactly the participants, every player of the winning team
\* has points_win, every player of the losing team points_loss, and the MVP has
\* points_mvp on top of that, whichever side the MVP is on.
C15_LedgerPerPlayer ==
    LedgerComputed =>
        LET match == active_matches[lastEvent.target]
            t1 == Range(match.team1_players)
            t2 == Range(match.team2_players)
            winner == lastEvent.arg
            mvp == lastEvent.user
            deltas == lastEvent.result
            winners == IF winner = 1 THEN t1 ELSE t2
            losers == IF winner = 1 THEN t2 ELSE t1
            bonus(p) == IF p = mvp THEN POINTS_MVP ELSE 0
        IN  (t1 \cap t2 = {} /\ mvp \in {None} \cup t1 \cup t2 /\ winner \in {1, 2}) =>
                /\ DOMAIN deltas = t1 \cup t2
                /\ \A p \in winners : deltas[p] = POINTS_WIN + bonus(p)
                /\ \A p \in losers : deltas[p] = POINTS_LOSS + bonus(p)

\* A ledger computed for two disjoint teams of five, won by team 2, with the
\* MVP on team 1.
C15_Witness ==
    /\ LedgerComputed
    /\ LET match == active_matches[lastEvent.target]
       IN  /\ Range(match.team1_players) \cap Range(match.team2_players) = {}
           /\ Cardinality(Range(match.team1_players)) = DEFAULT_TEAM_SIZE
           /\ Cardinality(Range(match.team2_players)) = DEFAULT_TEAM_SIZE
           /\ lastEvent.arg = 2
           /\ lastEvent.user \in Range(match.team1_players)
           /\ lastEvent.result[lastEvent.user] = POINTS_LOSS + POINTS_MVP

\* C16: for rosters of five against five, a winner of 1 or 2 and any MVP, the
\* deltas of the ledger add up to 5*points_win + 5*points_loss, plus points_mvp
\* when an MVP is set.
C16_LedgerSum ==
    LedgerComputed =>
        LET match == active_matches[lastEvent.target]
            deltas == lastEvent.result
        IN  (/\ Len(match.team1_players) = DEFAULT_TEAM_SIZE
             /\ Len(match.team2_players) = DEFAULT_TEAM_SIZE
             /\ lastEvent.arg \in {1, 2}) =>
                SumDeltas(deltas, DOMAIN deltas)
                    = DEFAULT_TEAM_SIZE * POINTS_WIN + DEFAULT_TEAM_SIZE * POINTS_LOSS
                      + (IF lastEvent.user # None THEN POINTS_MVP ELSE 0)

---------------------------------------------------------------------------
\* The draft

\* The number of picks of a draft of five against five.
DraftLength == 2 * DEFAULT_TEAM_SIZE - 2

\* The leader whose turn pick number n is.
ExpectedDrafter(match, n) == IF n % 2 = 1 THEN match.leader1_id ELSE match.leader2_id

\* The step is a call of handle_draft_pick for match m.
DraftCall(m) == lastEvent'.op = "draft_pick" /\ lastEvent'.target = m

\* The rosters of match m are what they were.
RostersUnchanged(m) ==
    /\ m \in DOMAIN active_matches'
    /\ active_matches'[m].team1_players = active_matches[m].team1_players
    /\ active_matches'[m].team2_players = active_matches[m].team2_players

\* Picks 1..8 of a draft: a call of anyone but the leader whose turn it is
\* changes no roster; a call of that leader appends the named player to that
\* leader's own team and leaves the other team alone; the 8th pick leaves five
\* against five and the draft complete.
DraftTurn(m) ==
    LET match == active_matches[m]
        n == PicksMade(m) + 1
        after == active_matches'[m]
    IN  (DraftCall(m) /\ n <= DraftLength) =>
            IF lastEvent'.user # ExpectedDrafter(match, n)
            THEN lastEvent'.result = "rejected" /\ RostersUnchanged(m)
            ELSE /\ lastEvent'.result = "ok"
                 /\ IF n % 2 = 1
                    THEN /\ after.team1_players = Append(match.team1_players, lastEvent'.arg)
                         /\ after.team2_players = match.team2_players
                    ELSE /\ after.team2_players = Append(match.team2_players, lastEvent'.arg)
                         /\ after.team1_players = match.team1_players
                 /\ n = DraftLength =>
                        /\ Len(after.team1_players) = DEFAULT_TEAM_SIZE
                        /\ Len(after.team2_players) = DEFAULT_TEAM_SIZE
                        /\ after.status = WAITING_FOR_LOBBY

C18_TeamSizeBounded ==
    \A m \in DOMAIN active_matches :
        /\ Len(active_matches[m].team1_players) <= DEFAULT_TEAM_SIZE
        /\ Len(active_matches[m].team2_players) <= DEFAULT_TEAM_SIZE

\* No player is listed twice in the sequence.
NoRepeats(team) == Cardinality(Range(team)) = Len(team)

\* C19: the teams of a match are disjoint and neither lists a player twice.
C19_TeamsDisjoint ==
    \A m \in DOMAIN active_matches :
        /\ Range(active_matches[m].team1_players) \cap Range(active_matches[m].team2_players) = {}
        /\ NoRepeats(active_matches[m].team1_players)
        /\ NoRepeats(active_matches[m].team2_players)

\* The pool of a match: the queued players who are on neither team yet.
AvailablePool(m) == Players \ Range(all_players(active_matches[m]))

\* C20: a pick that names a player already on a team, or a player outside the
\* pool of the match (the queued players not yet on a team), is rejected and
\* leaves both teams unchanged.
C20_BadPickRejected ==
    [][\A m \in DOMAIN active_matches :
          (DraftCall(m) /\ lastEvent'.arg \notin AvailablePool(m))
              => lastEvent'.result = "rejected" /\ RostersUnchanged(m)]_vars

\* C21: a pick by anyone but the leader whose turn it is, or for a match that is
\* not registered, changes no roster and no status, in the registry or the table.
C21_FailedPickChangesNothing ==
    [][(/\ lastEvent'.op = "draft_pick"
        /\ (lastEvent'.target \in DOMAIN active_matches =>
               lastEvent'.user # ExpectedDrafter(active_matches[lastEvent'.target],
                                                PicksMade(lastEvent'.target) + 1)))
          => /\ lastEvent'.result = "rejected"
             /\ UNCHANGED <<active_matches, db_matches>>]_vars

\* leader2 called for the first pick of a registered match and was turned down.
C21_Witness ==
    \E m \in DOMAIN active_matches :
        /\ lastEvent.op = "draft_pick"
        /\ lastEvent.target = m
        /\ lastEvent.user = active_matches[m].leader2_id
        /\ lastEvent.result = "rejected"
        /\ PicksMade(m) = 0

---------------------------------------------------------------------------
\* The queue and the promotion

\* A list without a repeated member.
NoDuplicates(s) == Cardinality(Range(s)) = Len(s)

\* The lists that keep the join order of s: s itself, s with one player added
\* at its end, s with one player taken out, and the empty list.
OrderKept(s) ==
    {s, << >>}
    \cup {Append(s, u) : u \in QueueUsers}
    \cup {SubSeq(s, 1, i - 1) \o SubSeq(s, i + 1, Len(s)) : i \in DOMAIN s}

\* C22: the two leaders of a match are different players of the promoted list,
\* leader1 is on team 1 and leader2 on team 2 at all times, and the leaders of
\* a match never change.
C22_LeadersFixed ==
    /\ [](\A m \in DOMAIN db_matches :
              /\ db_matches[m].leader1_id # db_matches[m].leader2_id
              /\ Leaders(db_matches[m]) \subseteq Range(promoted[m])
              /\ db_matches[m].leader1_id \in Range(db_matches[m].team1_players)
              /\ db_matches[m].leader2_id \in Range(db_matches[m].team2_players)
              /\ m \in DOMAIN active_matches
                 => /\ active_matches[m].leader1_id = db_matches[m].leader1_id
                    /\ active_matches[m].leader2_id = db_matches[m].leader2_id
                    /\ active_matches[m].leader1_id \in Range(active_matches[m].team1_players)
                    /\ active_matches[m].leader2_id \in Range(active_matches[m].team2_players))
    /\ [][\A m \in DOMAIN db_matches :
              /\ m \in DOMAIN db_matches'
              /\ db_matches'[m].leader1_id = db_matches[m].leader1_id
              /\ db_matches'[m].leader2_id = db_matches[m].leader2_id]_vars

\* Four players were promoted by forcestart, the player at the tail of the
\* queue leads team 1, and both leaders have picked.
C22_Witness ==
    \E m \in DOMAIN active_matches :
        /\ Len(promoted[m]) = 4
        /\ active_matches[m].leader1_id = promoted[m][4]
        /\ PicksMade(m) = 2

\* C23: a match stops DRAFTING exactly when both rosters hold half of the
\* promoted players, whatever their number: it is DRAFTING while a roster is
\* short of that, and no longer once both have reached it.
C23_DraftEndsAtTeamSize ==
    \A m \in DOMAIN active_matches :
        LET match == active_matches[m]
            N == Len(promoted[m])
        IN  (match.status = DRAFTING)
               = (TRUE \in {2 * Len(match.team1_players) < N, 2 * Len(match.team2_players) < N})

\* C24: the promotion of a full queue is one transition for the other queue
\* operations: no join and no leave is handled on a queue that is full and not
\* yet promoted, so none is refused as full on account of a pending promotion.
C24_PromotionIsOneTransition ==
    [][lastEvent'.op \in {"handle_join_queue", "handle_leave_queue"}
          => ~is_full(queue)]_vars

\* C25: with ten players joining one after another, a join that leaves the
\* queue short of ten creates no match, and the tenth creates a new match in
\* DRAFTING whose two leaders are different players of the ten, and leaves the
\* queue empty.
C25_TenthJoinPromotes ==
    [][/\ (lastEvent'.op = "join_resume" /\ InFlight = 1 /\ ~is_full(queue))
          => UNCHANGED <<db_matches, active_matches>>
       /\ \A call \in starting :
              (/\ lastEvent'.op = "start_match"
               /\ InFlight = 1
               /\ Len(call.players) = QUEUE_MAX_SIZE
               /\ NoDuplicates(call.players))
                  => /\ call.match_id \notin DOMAIN db_matches
                     /\ call.match_id \in DOMAIN active_matches'
                     /\ active_matches'[call.match_id].status = DRAFTING
                     /\ active_matches'[call.match_id].leader1_id
                           # active_matches'[call.match_id].leader2_id
                     /\ Leaders(active_matches'[call.match_id]) \subseteq Range(call.players)
                     /\ queue'.players = << >>]_vars

\* C36: joins that meet when the queue fills give one match for the fill: a
\* match is created only out of a full queue, which it leaves empty.
C36_OneMatchPerFill ==
    [][(lastEvent'.op = "start_match" /\ lastEvent'.result = "ok")
          => (is_full(queue) /\ queue'.players = << >>)]_vars

\* C37: once the draft of a match is complete, the two teams together are the
\* players promoted for the match, each of them on one team and once.
C37_TeamsAreThePromoted ==
    \A m \in DOMAIN active_matches :
        active_matches[m].status = WAITING_FOR_LOBBY
           => /\ NoDuplicates(all_players(active_matches[m]))
              /\ Range(all_players(active_matches[m])) = Range(promoted[m])

\* C38: the leaders and the participants of a created match are the players
\* who are in the queue when it is cleared for the match: nobody who left in the
\* meantime is in the match, nobody who is queued is dropped without being in it.
C38_MatchOfThoseQueued ==
    [][(lastEvent'.op = "start_match" /\ lastEvent'.result = "ok")
          => /\ Leaders(active_matches'[lastEvent'.target]) \subseteq Range(queue.players)
             /\ Range(promoted'[lastEvent'.target]) = Range(queue.players)]_vars

\* C39: a promotion that fails, for want of a channel or of the row, registers
\* no match and leaves the queue with the players it had.
C39_FailedPromotionChangesNothing ==
    [][(lastEvent'.op = "start_match" /\ lastEvent'.result # "ok")
          => UNCHANGED <<active_matches, voting_data, db_matches, promoted, queue>>]_vars

\* The id drawn for a full queue was taken: the ten are still queued.
C39_Witness ==
    /\ lastEvent.op = "start_match"
    /\ lastEvent.result = "rejected"
    /\ Len(queue.players) = QUEUE_MAX_SIZE
    /\ lastEvent.target \in DOMAIN active_matches

\* C26: a join is refused exactly when the user is timed out, already queued or
\* the queue is at capacity, a leave exactly when the user is not queued, and a
\* refused call leaves the player list and the last-departed record as they were.
C26_RefusalsChangeNothing ==
    [][/\ lastEvent'.op = "handle_join_queue"
          => /\ (lastEvent'.result # "OK")
                   = (TRUE \in {lastEvent'.arg = 1,
                                lastEvent'.user \in Range(queue.players),
                                Len(queue.players) >= queue.max_size})
             /\ lastEvent'.result # "OK" => queue' = queue
       /\ lastEvent'.op = "handle_leave_queue"
          => /\ (lastEvent'.result # "OK") = (lastEvent'.user \notin Range(queue.players))
             /\ lastEvent'.result # "OK" => queue' = queue]_vars

\* The user at the head of a queue, which somebody left before, pressed Join
\* again and was refused.
C26_Witness ==
    /\ lastEvent.op = "handle_join_queue"
    /\ lastEvent.result = "You are already in the queue!"
    /\ lastEvent.arg = 0
    /\ Len(queue.players) >= 2
    /\ lastEvent.user = queue.players[1]
    /\ queue.last_left_player # None

\* C27: whatever the interleaving of the join and leave handlers, the queue has
\* no player twice, never more players than its capacity, and every step keeps
\* the players in the order they joined.
C27_QueueWellFormed ==
    /\ [](NoDuplicates(queue.players) /\ Len(queue.players) <= queue.max_size)
    /\ [][queue'.players \in OrderKept(queue.players)]_vars

\* The head of the queue left while a join was suspended, and the user who
\* rejoined stands behind those who stayed.
C27_Witness ==
    /\ Len(queue.players) >= 3
    /\ queue.players[1] = 2
    /\ queue.players[2] = 1
    /\ queue.last_left_player # None

---------------------------------------------------------------------------
\* Cancellation, the registry, the lobby

\* C28: a cancel requested by a leader of a registered, non-terminal match, or by
\* an administrator for a non-terminal match, leaves the match CANCELLED with a
\* reason and changes no points; a request of anyone else changes nothing.
C28_ExplicitCancel ==
    [][/\ \A m \in DOMAIN active_matches :
              (/\ lastEvent'.op = "cancel_request"
               /\ lastEvent'.target = active_matches[m].channel_id
               /\ ~Terminal(db_matches[m].status))
                  => IF lastEvent'.user \in Leaders(active_matches[m])
                     THEN /\ db_matches'[m].status = CANCELLED
                          /\ db_matches'[m].cancelled_reason # NoneStr
                          /\ db_points' = db_points
                     ELSE UNCHANGED prog
       /\ \A m \in DOMAIN db_matches :
              (/\ lastEvent'.op = "force_cancel"
               /\ lastEvent'.target = m
               /\ ~Terminal(db_matches[m].status))
                  => /\ db_matches'[m].status = CANCELLED
                     /\ db_matches'[m].cancelled_reason # NoneStr
                     /\ db_points' = db_points]_vars

\* C29: a match is registered, with a vote ledger, exactly while its row is not
\* terminal.
C29_RegisteredWhileLive ==
    /\ DOMAIN voting_data = DOMAIN active_matches
    /\ \A m \in DOMAIN db_matches :
           m \in DOMAIN active_matches <=> ~Terminal(db_matches[m].status)

\* C30: a lobby id submission that is not from leader2, or not valid, or not for
\* a match in WAITING_FOR_LOBBY, is rejected and leaves status and lobby_id as
\* they were.
C30_LobbyGuard ==
    [][\A m \in DOMAIN active_matches :
          (/\ lastEvent'.op = "lobby"
           /\ lastEvent'.target = active_matches[m].channel_id
           /\ ~(/\ lastEvent'.user = active_matches[m].leader2_id
                /\ active_matches[m].status = WAITING_FOR_LOBBY
                /\ validate_lobby_id(UpperStr(strip(LobbyInputs[lastEvent'.arg])))))
              => /\ lastEvent'.result = "rejected"
                 /\ active_matches'[m].status = active_matches[m].status
                 /\ active_matches'[m].lobby_id = active_matches[m].lobby_id
                 /\ db_matches'[m].status = db_matches[m].status
                 /\ db_matches'[m].lobby_id = db_matches[m].lobby_id]_vars

---------------------------------------------------------------------------
\* The lobby id

\* Four to ten upper-case letters and digits.
LobbySyntax(lobby_id) ==
    /\ Len(lobby_id) \in 4 .. 10
    /\ Range(lobby_id) \subseteq UpperAlnum

\* C31: what leader2 submits is stripped and put in upper case, and is accepted
\* exactly when the result is 4 to 10 upper-case letters and digits; the result
\* is what is stored, and a lobby id that is set always has this form.
C31_LobbyIdSyntax ==
    /\ [](\A m \in DOMAIN db_matches :
              /\ db_matches[m].lobby_id # NoLobby => LobbySyntax(db_matches[m].lobby_id)
              /\ m \in DOMAIN active_matches
                 => (active_matches[m].lobby_id # NoLobby
                        => LobbySyntax(active_matches[m].lobby_id)))
    /\ [][\A m \in DOMAIN active_matches :
              (/\ lastEvent'.op = "lobby"
               /\ lastEvent'.target = active_matches[m].channel_id
               /\ lastEvent'.user = active_matches[m].leader2_id)
                  => LET normalized == UpperStr(strip(LobbyInputs[lastEvent'.arg]))
                     IN  /\ (lastEvent'.result = "ok") = LobbySyntax(normalized)
                         /\ lastEvent'.result = "ok"
                            => /\ active_matches'[m].lobby_id = normalized
                               /\ db_matches'[m].lobby_id = normalized]_vars

\* leader2 typed ab12 between blanks, and AB12 is the lobby id of the match.
C31_Witness ==
    \E m \in DOMAIN active_matches :
        /\ lastEvent.op = "lobby"
        /\ lastEvent.arg = 3
        /\ lastEvent.result = "ok"
        /\ active_matches[m].lobby_id = <<"A", "B", "1", "2">>
        /\ db_matches[m].lobby_id = <<"A", "B", "1", "2">>

---------------------------------------------------------------------------
\* The store and the registry

\* C32: an operation whose write of the row fails leaves the registered matches,
\* with their rosters, status, lobby id, winner and MVP, as they were.
C32_FailedWriteChangesNothing ==
    [][lastEvent'.result = "error" => active_matches' = active_matches]_vars

\* C33: the row of a registered, non-terminal match agrees with the match on
\* status, rosters, lobby id, winner and MVP.
C33_RowAgreesWithMatch ==
    \A m \in DOMAIN active_matches :
        ~Terminal(active_matches[m].status)
           => /\ m \in DOMAIN db_matches
              /\ db_matches[m].status = active_matches[m].status
              /\ db_matches[m].team1_players = active_matches[m].team1_players
              /\ db_matches[m].team2_players = active_matches[m].team2_players
              /\ db_matches[m].lobby_id = active_matches[m].lobby_id
              /\ db_matches[m].winner_team = active_matches[m].winner_team
              /\ db_matches[m].mvp_id = active_matches[m].mvp_id

---------------------------------------------------------------------------
\* Repeated votes, and the match in VOTING

\* C34: a vote of a leader is in the ledger after the call, under that leader
\* and with the value cast; and a call that casts the value the ledger already
\* holds for the leader changes neither the ledgers nor the match nor its row.
C34_RepeatedVoteKeepsLastValue ==
    [][\A m \in DOMAIN active_matches :
          (/\ lastEvent'.op \in {"winner_vote", "mvp_vote"}
           /\ lastEvent'.target = active_matches[m].channel_id
           /\ lastEvent'.user \in Leaders(active_matches[m])
           /\ ~Terminal(active_matches[m].status))
              => LET ledger == IF lastEvent'.op = "winner_vote" THEN "winner_votes"
                                                                ELSE "mvp_votes"
                     before == IF m \in DOMAIN voting_data THEN voting_data[m][ledger]
                                                           ELSE << >>
                     after == IF m \in DOMAIN voting_data' THEN voting_data'[m][ledger]
                                                           ELSE << >>
                     repeated == /\ lastEvent'.user \in DictKeys(before)
                                 /\ DictGet(before, lastEvent'.user) = lastEvent'.arg
                 IN  /\ lastEvent'.user \in DictKeys(after)
                     /\ DictGet(after, lastEvent'.user) = lastEvent'.arg
                     /\ repeated => UNCHANGED <<voting_data, active_matches, db_matches>>]_vars

---------------------------------------------------------------------------
\* The settings of the guild

\* C35: after any sequence of updates the stored settings have points_win >= 0,
\* points_loss <= 0, points_mvp >= 0, no_proof_penalty >= 0, proof_timeout_minutes
\* from 1 to 1440 and a queue size that is even and at least 4.
C35_SettingsInRange ==
    /\ db_config.points_win >= 0
    /\ db_config.points_loss <= 0
    /\ db_config.points_mvp >= 0
    /\ db_config.no_proof_penalty >= 0
    /\ db_config.proof_timeout_minutes \in 1 .. 1440
    /\ db_config.queue_size >= 4
    /\ db_config.queue_size % 2 = 0

====
